---- MODULE Spec2Model ----
(***************************************************************************)
(* Model of the sticker generation workflow of src/index.tsx (the App      *)
(* component): the React state of the component, the event handlers, the   *)
(* asynchronous generation calls and the conditions under which the JSX    *)
(* renders or disables each control.                                       *)
(*                                                                         *)
(* A string is modelled as a sequence of chunks (a chunk is a piece of     *)
(* text that the code never looks inside: a word, a separator, a blank),   *)
(* so that split, trim and template interpolation are computed.            *)
(***************************************************************************)
EXTENDS Integers, Sequences, FiniteSets, TLC

\* ------------------------------------------------------------------ bounds
MaxEdits == 2         \* settings edits explored in one behaviour
MaxBatch == 3         \* longest variant batch explored under Spec
MaxTextLen == 4       \* longest generated custom-variants text, in chunks
MaxParts == 3         \* most parts in a generated service response

\* --------------------------------------------------------------- constants
\* The display labels and captions of the source are Chinese text; they are
\* written here in an ASCII rendering, one chunk each.
MAX_CUSTOM_VARIANTS == 12

STYLES ==
  [ photorealistic |-> <<"hyper-realistic">>, cute |-> <<"kawaii">>, abstract |-> <<"abstract art">>,
    picasso |-> <<"Picasso">>, vangogh |-> <<"Van Gogh">>, davinci |-> <<"Da Vinci">>,
    monalisa |-> <<"Mona Lisa">>, mosaic |-> <<"mosaic tiles">>, custom |-> <<"other...">> ]

RANDOM_ACTIONS == << <<"running">>, <<"waving">>, <<"holding coffee">>, <<"dancing">>, <<"thinking">>, <<"celebrating">> >>

\* ------------------------------------------------------------ sample inputs
\* the files the user may upload; the code never looks inside an image, so
\* two are enough to tell the uploaded image from the one a handler holds
Images == {1, 2}
NoImage == 0
\* the pictures the service may make from one image
Pictures == {1}

StyleSamples == {"cute", "custom"}
CustomStyleSamples == { <<>>, <<"ink wash">> }
StrengthSamples == {70, 100}
UserPromptSamples == { <<>>, <<"party hat">> }

\* texts typed into the custom-variants textarea
CustomTextSamples ==
  { <<" ", ",", " ", ",", " ">>,
    <<"ok", ",", ",", " ", "no", " ">> }

\* the text the textarea holds after construction
DefaultCustomVariantsPrompt ==
  <<"yes", ",", " ", "no", ",", " ", "ok", ",", " ", "angry", ",", " ", "do not", ",", " ",
    "not allowed", ",", " ", "exam 100", ",", " ", "wooden fish">>

\* outcomes of the random shuffle explored (the first three of a permutation)
ShuffleSamples ==
  { <<RANDOM_ACTIONS[5], RANDOM_ACTIONS[2], RANDOM_ACTIONS[6]>> }

ErrorMessages == { <<"quota exceeded">> }

\* ------------------------------------------------------------ string helpers
IsSpace(c) == c = " "

RECURSIVE TrimStart(_)
TrimStart(s) ==
  IF s = <<>> THEN <<>>
  ELSE IF IsSpace(Head(s)) THEN TrimStart(Tail(s)) ELSE s

RECURSIVE TrimEnd(_)
TrimEnd(s) ==
  IF s = <<>> THEN <<>>
  ELSE IF IsSpace(s[Len(s)]) THEN TrimEnd(SubSeq(s, 1, Len(s) - 1)) ELSE s

Trim(s) == TrimEnd(TrimStart(s))

\* s.split(','): the pieces between the commas, empty pieces included
RECURSIVE SplitFrom(_, _, _)
SplitFrom(s, i, cur) ==
  IF i > Len(s) THEN <<cur>>
  ELSE IF s[i] = "," THEN <<cur>> \o SplitFrom(s, i + 1, <<>>)
  ELSE SplitFrom(s, i + 1, Append(cur, s[i]))

Split(s) == SplitFrom(s, 1, <<>>)

MapTrim(ss) == [i \in 1..Len(ss) |-> Trim(ss[i])]

\* .filter(Boolean): the empty string is the only falsy string
FilterBoolean_KeepsAll(ss) == ss

FilterBoolean(ss) == SelectSeq(ss, LAMBDA x : x # <<>>)

Slice_OffByOne(ss, n) == SubSeq(ss, 1, IF Len(ss) < n + 1 THEN Len(ss) ELSE n + 1)

Slice(ss, n) == SubSeq(ss, 1, IF Len(ss) < n THEN Len(ss) ELSE n)

ParseCustomVariants(text) ==
  Slice(FilterBoolean(MapTrim(Split(text))), MAX_CUSTOM_VARIANTS)

\* ------------------------------------------------------------------ values
\* null and the empty string are both falsy; the code only ever tests
\* truthiness of error, baseSticker, userPrompt and the generateImage result
Null == <<>>

Truthy(s) == s # Null

ErrMissingKey == <<"cannot initialise the AI service: API key missing">>
ErrFileRead == <<"reading the file failed, try again">>
ErrNotReady == <<"AI service not ready or no image uploaded">>
ErrNoImageReturned == <<"the API returned no image">>
ErrGenerationFailed(message) == <<"image generation failed: ">> \o message
ErrVariantFailed(action) == <<"generating \"">> \o action \o <<"\" variant failed">>
ErrNoValidAction == <<"enter at least one valid caption">>

\* ----------------------------------------------------------------- prompts
StylePrompt(s) == IF s.style = "custom" THEN s.customStyle ELSE STYLES[s.style]

LockClause(s) == IF s.lockCharacter THEN <<"Maintain character consistency.">> ELSE <<>>

FaceClause(s) == IF s.faceConsistency THEN <<"Pay close attention to face consistency.">> ELSE <<>>

BasePrompt(s) ==
  <<"Generate a sticker with a transparent background. The subject should be based on the provided image, but rendered in a \"">>
  \o StylePrompt(s) \o <<"\" style. ">>
  \o (IF Truthy(s.userPrompt)
        THEN <<"Incorporate this description: \"">> \o s.userPrompt \o <<"\".">>
        ELSE <<>>)
  \o <<" Style strength should be around ", ToString(s.styleStrength), "%. ">>
  \o LockClause(s) \o <<" ">> \o FaceClause(s)

VariantPrompt(s, action) ==
  <<"Based on the character in the image, create a sticker of them showing the emotion or action: \"">>
  \o action \o <<"\". The style should be \"">> \o StylePrompt(s)
  \o <<"\" with a transparent background. ">>
  \o (IF Truthy(s.userPrompt)
        THEN <<"Incorporate this general theme: \"">> \o s.userPrompt \o <<"\".">>
        ELSE <<>>)
  \o <<" ">> \o LockClause(s) \o <<" ">> \o FaceClause(s)

\* ------------------------------------------------------ generation service
\* the picture data the service derives from an image: one chunk per
\* (image, picture) pair, so that a result names the image it was made from
PictureData(img, k) == "picture " \o ToString(k) \o " of image " \o ToString(img)

TextPart == [inline |-> FALSE, mimeType |-> "", data |-> "some text"]

ImagePart(img, k) == [inline |-> TRUE, mimeType |-> "image/png", data |-> PictureData(img, k)]

\* what the service may answer to a request: the call fails with a message,
\* or it returns the parts of the first candidate (none when there is no
\* candidate)
Responses(req) ==
  { [ok |-> FALSE, message |-> m, parts |-> <<>>] : m \in ErrorMessages }
  \cup { [ok |-> TRUE, message |-> <<>>, parts |-> ps] :
           ps \in { <<>>, <<TextPart>> }
                  \cup { <<TextPart, ImagePart(req.image, k)>> : k \in Pictures } }

DataUri(part) == <<"data:", part.mimeType, ";base64,", part.data>>

RECURSIVE FirstInline_Last(_)
FirstInline_Last(parts) ==
  IF parts = <<>> THEN Null
  ELSE IF parts[Len(parts)].inline THEN DataUri(parts[Len(parts)])
  ELSE FirstInline_Last(SubSeq(parts, 1, Len(parts) - 1))

RECURSIVE FirstInline(_)
FirstInline(parts) ==
  IF parts = <<>> THEN Null
  ELSE IF Head(parts).inline THEN DataUri(Head(parts))
  ELSE FirstInline(Tail(parts))

\* what generateImage returns for a response and the error it sets
\* (setsError = FALSE: the error state is left alone)
GenerateImageOutcome(resp) ==
  IF ~resp.ok
    THEN [result |-> Null, setsError |-> TRUE, error |-> ErrGenerationFailed(resp.message)]
  ELSE IF FirstInline(resp.parts) = Null
    THEN [result |-> Null, setsError |-> TRUE, error |-> ErrGenerationFailed(ErrNoImageReturned)]
  ELSE [result |-> FirstInline(resp.parts), setsError |-> FALSE, error |-> Null]

\* ------------------------------------------------------------------- state
VARIABLES
  uploadedImage,         \* NoImage or the uploaded image
  consentChecked,
  style, customStyle, styleStrength, userPrompt, lockCharacter, faceConsistency,
  customVariantsPrompt,
  isLoading, error, appStep,
  baseSticker,           \* Null or a data URI
  variants,              \* sequence of [id, uri, label]
  ai,                    \* TRUE iff the API key was present at construction
  running,               \* the handler invocations suspended on a request
  edits                  \* number of settings edits made so far

vars ==
  << uploadedImage, consentChecked, style, customStyle, styleStrength, userPrompt,
     lockCharacter, faceConsistency, customVariantsPrompt, isLoading, error,
     appStep, baseSticker, variants, ai, running, edits >>

settingsVars == << style, customStyle, styleStrength, userPrompt, lockCharacter, faceConsistency >>

resultVars == << appStep, baseSticker, variants >>

\* the values the handlers created by the current render close over
Render ==
  [ uploadedImage |-> uploadedImage, style |-> style, customStyle |-> customStyle,
    styleStrength |-> styleStrength, userPrompt |-> userPrompt,
    lockCharacter |-> lockCharacter, faceConsistency |-> faceConsistency ]

Init ==
  /\ uploadedImage = NoImage
  /\ consentChecked = FALSE
  /\ style = "cute"
  /\ customStyle = <<>>
  /\ styleStrength = 70
  /\ userPrompt = <<>>
  /\ lockCharacter = TRUE
  /\ faceConsistency = FALSE
  /\ customVariantsPrompt = DefaultCustomVariantsPrompt
  /\ isLoading = FALSE
  /\ ai \in BOOLEAN
  /\ error = IF ai THEN Null ELSE ErrMissingKey
  /\ appStep = "upload"
  /\ baseSticker = Null
  /\ variants = <<>>
  /\ running = <<>>
  /\ edits = 0

\* ------------------------------------------------- what the JSX renders
isGenerateButtonDisabled == uploadedImage = NoImage \/ ~consentChecked \/ isLoading

GalleryShown_WhileLoading == Truthy(baseSticker)

\* the results panel shows the gallery (and not the loader or the placeholder)
GalleryShown == ~isLoading /\ Truthy(baseSticker)

ErrorShown == GalleryShown /\ Truthy(error)

GenerateBaseButtonEnabled == ~isGenerateButtonDisabled

RegenerateButtonEnabled == GalleryShown /\ appStep = "base_generated"

ConfirmButtonEnabled == GalleryShown /\ appStep = "base_generated"

ResampleButtonEnabled == GalleryShown /\ appStep = "variants_generated" /\ ~isLoading

CustomVariantsTextareaShown == GalleryShown /\ appStep = "variants_generated"

CustomVariantsButtonEnabled ==
  /\ GalleryShown
  /\ appStep = "variants_generated"
  /\ ~(isLoading \/ ~Truthy(Trim(customVariantsPrompt)))

CustomStyleInputShown == style = "custom"

\* --------------------------------------------------------- upload, consent
resetGeneration_KeepsVariants ==
  /\ appStep' = "upload"
  /\ baseSticker' = Null
  /\ UNCHANGED variants

resetGeneration_KeepsStep ==
  /\ UNCHANGED appStep
  /\ baseSticker' = Null
  /\ variants' = <<>>

resetGeneration ==
  /\ appStep' = "upload"
  /\ baseSticker' = Null
  /\ variants' = <<>>

\* handleFileChange when the file is read: choosing the file changes no
\* state, so the handler acts when fileToBase64 resolves
FileReadOk(img) ==
  /\ uploadedImage' = img
  /\ error' = Null
  /\ resetGeneration
  /\ UNCHANGED << consentChecked, settingsVars, customVariantsPrompt, isLoading, ai, running, edits >>

\* handleFileChange when fileToBase64 rejects
FileReadFail ==
  /\ error' = ErrFileRead
  /\ UNCHANGED << uploadedImage, consentChecked, settingsVars, customVariantsPrompt,
                  isLoading, resultVars, ai, running, edits >>

SetConsentChecked(b) ==
  /\ b # consentChecked
  /\ consentChecked' = b
  /\ UNCHANGED << uploadedImage, settingsVars, customVariantsPrompt, isLoading, error,
                  resultVars, ai, running, edits >>

\* ---------------------------------------------------------------- settings
\* an onChange handler runs only when the control's value changes
\* the settings inputs carry no disabled attribute
SettingsInputsEnabled == TRUE

EditAllowed == SettingsInputsEnabled /\ edits < MaxEdits

nonSettingsVars ==
  << uploadedImage, consentChecked, customVariantsPrompt, isLoading, error,
     resultVars, ai, running >>

SetStyle(v) ==
  /\ EditAllowed
  /\ v # style
  /\ style' = v
  /\ edits' = edits + 1
  /\ UNCHANGED << customStyle, styleStrength, userPrompt, lockCharacter, faceConsistency, nonSettingsVars >>

SetCustomStyle(v) ==
  /\ EditAllowed
  /\ v # customStyle
  /\ CustomStyleInputShown
  /\ customStyle' = v
  /\ edits' = edits + 1
  /\ UNCHANGED << style, styleStrength, userPrompt, lockCharacter, faceConsistency, nonSettingsVars >>

SetStyleStrength(v) ==
  /\ EditAllowed
  /\ v # styleStrength
  /\ styleStrength' = v
  /\ edits' = edits + 1
  /\ UNCHANGED << style, customStyle, userPrompt, lockCharacter, faceConsistency, nonSettingsVars >>

SetUserPrompt(v) ==
  /\ EditAllowed
  /\ v # userPrompt
  /\ userPrompt' = v
  /\ edits' = edits + 1
  /\ UNCHANGED << style, customStyle, styleStrength, lockCharacter, faceConsistency, nonSettingsVars >>

SetLockCharacter(b) ==
  /\ EditAllowed
  /\ b # lockCharacter
  /\ lockCharacter' = b
  /\ edits' = edits + 1
  /\ UNCHANGED << style, customStyle, styleStrength, userPrompt, faceConsistency, nonSettingsVars >>

SetFaceConsistency(b) ==
  /\ EditAllowed
  /\ b # faceConsistency
  /\ faceConsistency' = b
  /\ edits' = edits + 1
  /\ UNCHANGED << style, customStyle, styleStrength, userPrompt, lockCharacter, nonSettingsVars >>

SetCustomVariantsPrompt(t) ==
  /\ CustomVariantsTextareaShown
  /\ t # customVariantsPrompt
  /\ customVariantsPrompt' = t
  /\ UNCHANGED << uploadedImage, consentChecked, settingsVars, isLoading, error,
                  resultVars, ai, running, edits >>

\* ------------------------------------------------------ generation workflow
\* generateImage's guard, over the values the calling handler closed over
CanRequest(cl) == ai /\ cl.uploadedImage # NoImage

Request(cl, prompt) == [image |-> cl.uploadedImage, prompt |-> prompt]

RemoveAt(seq, i) == SubSeq(seq, 1, i - 1) \o SubSeq(seq, i + 1, Len(seq))

otherVars == << uploadedImage, consentChecked, settingsVars, customVariantsPrompt, ai, edits >>

\* handleGenerateBase up to its await; when generateImage returns at its
\* guard, the rest of the handler runs before any other event
handleGenerateBase ==
  LET cl == Render IN
  IF CanRequest(cl)
    THEN /\ error' = Null
         /\ isLoading' = TRUE
         /\ running' = Append(running,
              [ kind |-> "base", closure |-> cl, actions |-> <<>>, idx |-> 1,
                generatedVariants |-> <<>>, request |-> Request(cl, BasePrompt(cl)) ])
         /\ UNCHANGED << resultVars, otherVars >>
    ELSE /\ error' = ErrNotReady
         /\ isLoading' = FALSE
         /\ UNCHANGED << running, resultVars, otherVars >>

\* const generatedVariants = []
InitialGeneratedVariants_FromVariants == variants

InitialGeneratedVariants == <<>>

\* generateVariants up to its first await
generateVariants(actions) ==
  LET cl == Render IN
  IF CanRequest(cl)
    THEN /\ error' = Null
         /\ isLoading' = TRUE
         /\ variants' = <<>>
         /\ running' = Append(running,
              [ kind |-> "variants", closure |-> cl, actions |-> actions, idx |-> 1,
                generatedVariants |-> InitialGeneratedVariants,
                request |-> Request(cl, VariantPrompt(cl, actions[1])) ])
         /\ UNCHANGED << appStep, baseSticker, otherVars >>
    ELSE /\ error' = ErrVariantFailed(actions[Len(actions)])
         /\ isLoading' = FALSE
         /\ variants' = <<>>
         /\ appStep' = "variants_generated"
         /\ UNCHANGED << running, baseSticker, otherVars >>

\* the shuffled RANDOM_ACTIONS cut to three
handleGenerateVariants ==
  \E actions \in ShuffleSamples : generateVariants(actions)

handleGenerateCustomVariants ==
  LET actions == ParseCustomVariants(customVariantsPrompt) IN
  IF Len(actions) = 0
    THEN /\ error' = ErrNoValidAction
         /\ UNCHANGED << isLoading, running, resultVars, otherVars >>
    ELSE generateVariants(actions)

\* the buttons
ClickGenerateBase == GenerateBaseButtonEnabled /\ handleGenerateBase

ClickRegenerate == RegenerateButtonEnabled /\ handleGenerateBase

ClickConfirm == ConfirmButtonEnabled /\ handleGenerateVariants

ClickResample == ResampleButtonEnabled /\ handleGenerateVariants

\* (only batches of at most MaxBatch captions are explored here)
ClickCustomVariants ==
  /\ CustomVariantsButtonEnabled
  /\ Len(ParseCustomVariants(customVariantsPrompt)) <= MaxBatch
  /\ handleGenerateCustomVariants

BaseContinues_ReturnsOnFailure(i, out) ==
  /\ IF Truthy(out.result)
       THEN /\ baseSticker' = out.result
            /\ appStep' = "base_generated"
            /\ isLoading' = FALSE
       ELSE UNCHANGED << baseSticker, appStep, isLoading >>
  /\ error' = IF out.setsError THEN out.error ELSE error
  /\ running' = RemoveAt(running, i)
  /\ UNCHANGED << variants, otherVars >>

BaseContinues_DropsOnFailure(i, out) ==
  /\ IF Truthy(out.result)
       THEN /\ baseSticker' = out.result
            /\ appStep' = "base_generated"
       ELSE /\ baseSticker' = Null
            /\ UNCHANGED appStep
  /\ error' = IF out.setsError THEN out.error ELSE error
  /\ isLoading' = FALSE
  /\ running' = RemoveAt(running, i)
  /\ UNCHANGED << variants, otherVars >>

\* the rest of handleGenerateBase, after generateImage has returned
BaseContinues(i, out) ==
  /\ IF Truthy(out.result)
       THEN /\ baseSticker' = out.result
            /\ appStep' = "base_generated"
       ELSE UNCHANGED << baseSticker, appStep >>
  /\ error' = IF out.setsError THEN out.error ELSE error
  /\ isLoading' = FALSE
  /\ running' = RemoveAt(running, i)
  /\ UNCHANGED << variants, otherVars >>

\* the for-of loop goes on to the next caption whatever the outcome was
LoopHasNext_StopsOnFailure(fl, out) == fl.idx < Len(fl.actions) /\ Truthy(out.result)

LoopHasNext(fl, out) == fl.idx < Len(fl.actions)

\* the step set after the loop, whatever the loop collected
StepAfterBatch_OnlyOnSuccess(gv) == IF gv = <<>> THEN appStep ELSE "variants_generated"

StepAfterBatch(gv) == "variants_generated"

\* the rest of one iteration of generateVariants' loop, then either the next
\* iteration up to its await or the statements after the loop
VariantsContinues(i, out) ==
  LET fl == running[i]
      action == fl.actions[fl.idx]
      gv == IF Truthy(out.result)
              THEN Append(fl.generatedVariants,
                     [ id |-> <<"v", ToString(Len(fl.generatedVariants) + 1)>>,
                       uri |-> out.result, label |-> action ])
              ELSE fl.generatedVariants
  IN
  /\ error' = IF Truthy(out.result) THEN error ELSE ErrVariantFailed(action)
  /\ IF LoopHasNext(fl, out)
       THEN /\ running' = [running EXCEPT ![i] =
                 [ fl EXCEPT !.idx = fl.idx + 1, !.generatedVariants = gv,
                     !.request = Request(fl.closure, VariantPrompt(fl.closure, fl.actions[fl.idx + 1])) ]]
            /\ UNCHANGED << isLoading, resultVars >>
       ELSE /\ variants' = gv
            /\ appStep' = StepAfterBatch(gv)
            /\ isLoading' = FALSE
            /\ running' = RemoveAt(running, i)
            /\ UNCHANGED baseSticker
  /\ UNCHANGED otherVars

\* the service answers the request of a suspended handler
RequestCompletes ==
  \E i \in 1..Len(running) :
    \E resp \in Responses(running[i].request) :
      LET out == GenerateImageOutcome(resp) IN
      IF running[i].kind = "base" THEN BaseContinues(i, out) ELSE VariantsContinues(i, out)

\* ------------------------------------------------------------ specification
Next ==
  \/ \E img \in Images : FileReadOk(img)
  \/ FileReadFail
  \/ \E b \in BOOLEAN : SetConsentChecked(b)
  \/ \E v \in StyleSamples : SetStyle(v)
  \/ \E v \in CustomStyleSamples : SetCustomStyle(v)
  \/ \E v \in StrengthSamples : SetStyleStrength(v)
  \/ \E v \in UserPromptSamples : SetUserPrompt(v)
  \/ \E b \in BOOLEAN : SetLockCharacter(b)
  \/ \E b \in BOOLEAN : SetFaceConsistency(b)
  \/ \E t \in CustomTextSamples : SetCustomVariantsPrompt(t)
  \/ ClickGenerateBase
  \/ ClickRegenerate
  \/ ClickConfirm
  \/ ClickResample
  \/ ClickCustomVariants
  \/ RequestCompletes

Spec == Init /\ [][Next]_vars

\* ------------------------------------------- the workflow under fairness
\* The workflow actions with the generation settings left at their defaults
\* (a suspended handler reads them from its closure only to build prompts).
NextWorkflow ==
  \/ \E img \in Images : FileReadOk(img)
  \/ FileReadFail
  \/ \E b \in BOOLEAN : SetConsentChecked(b)
  \/ \E t \in CustomTextSamples : SetCustomVariantsPrompt(t)
  \/ ClickGenerateBase
  \/ ClickRegenerate
  \/ ClickConfirm
  \/ ClickResample
  \/ ClickCustomVariants
  \/ RequestCompletes

\* every request to the service eventually returns or fails
FairWorkflow == Init /\ [][NextWorkflow]_vars /\ WF_vars(RequestCompletes)

\* ------------------------------------- the custom-variants workflow alone
\* Texts for the custom-variants textarea: every text of at most MaxTextLen
\* chunks over two words, the comma and the blank, the text of the spec's
\* example, the default text and a text of MAX_CUSTOM_VARIANTS + 1 entries.
TextChunks == {"a", "b", ",", " "}

TextsUpTo(n) == UNION { [1..k -> TextChunks] : k \in 0..n }

YesNoOkText == <<"yes", ",", " ", "no", ",", " ", "ok">>

RECURSIVE Numbered(_)
Numbered(n) ==
  IF n = 0 THEN <<>>
  ELSE Numbered(n - 1) \o (IF n > 1 THEN <<",", " ">> ELSE <<>>) \o <<ToString(n)>>

LongText == Numbered(MAX_CUSTOM_VARIANTS + 1)

ParseTexts == TextsUpTo(MaxTextLen) \cup {YesNoOkText, DefaultCustomVariantsPrompt, LongText}

\* The state after image 1 was uploaded, consent given, the base generated
\* and a first random batch generated without failure, with any text typed
\* into the textarea.
InitCustom ==
  LET first == CHOOSE actions \in ShuffleSamples : TRUE
      pic == DataUri(ImagePart(1, 1))
  IN
  /\ uploadedImage = 1
  /\ consentChecked = TRUE
  /\ style = "cute"
  /\ customStyle = <<>>
  /\ styleStrength = 70
  /\ userPrompt = <<>>
  /\ lockCharacter = TRUE
  /\ faceConsistency = FALSE
  /\ customVariantsPrompt \in ParseTexts
  /\ isLoading = FALSE
  /\ ai = TRUE
  /\ error = Null
  /\ appStep = "variants_generated"
  /\ baseSticker = pic
  /\ variants = [k \in 1..Len(first) |->
                  [id |-> <<"v", ToString(k)>>, uri |-> pic, label |-> first[k]]]
  /\ running = <<>>
  /\ edits = 0

\* the custom-variants button, whatever the length of the list
SubmitCustomVariants == CustomVariantsButtonEnabled /\ handleGenerateCustomVariants

NextCustom ==
  \/ \E img \in Images : FileReadOk(img)
  \/ SubmitCustomVariants
  \/ RequestCompletes

SpecCustom == InitCustom /\ [][NextCustom]_vars

\* ------------------------------------------- generateImage on any response
\* Responses of up to MaxParts parts: text parts and image parts of two media
\* types and two pictures, in any order, and the failing call.
PartSamples ==
  {TextPart}
  \cup { [inline |-> TRUE, mimeType |-> m, data |-> PictureData(1, k)] :
           m \in {"image/png", "image/webp"}, k \in {1, 2} }

PartLists(n) == UNION { [1..k -> PartSamples] : k \in 0..n }

ResponseSamples ==
  { [ok |-> FALSE, message |-> m, parts |-> <<>>] : m \in ErrorMessages }
  \cup { [ok |-> TRUE, message |-> <<>>, parts |-> ps] : ps \in PartLists(MaxParts) }

\* The state in which the first base generation waits at its await and the
\* service's response has arrived.
InitResponse ==
  /\ uploadedImage = 1
  /\ consentChecked = TRUE
  /\ style = "cute"
  /\ customStyle = <<>>
  /\ styleStrength = 70
  /\ userPrompt = <<>>
  /\ lockCharacter = TRUE
  /\ faceConsistency = FALSE
  /\ customVariantsPrompt = DefaultCustomVariantsPrompt
  /\ isLoading = TRUE
  /\ ai = TRUE
  /\ error = Null
  /\ appStep = "upload"
  /\ baseSticker = Null
  /\ variants = <<>>
  /\ edits = 0
  /\ \E resp \in ResponseSamples :
       running = << [ kind |-> "base", closure |-> Render, actions |-> <<>>, idx |-> 1,
                      generatedVariants |-> <<>>,
                      request |-> Request(Render, BasePrompt(Render)),
                      response |-> resp ] >>

\* generateImage resumes with the response that arrived
ResponseHandled ==
  /\ running # <<>>
  /\ BaseContinues(1, GenerateImageOutcome(running[1].response))

SpecResponse == InitResponse /\ [][ResponseHandled]_vars

\* ================================================================== claims
\* C1: every successful file read leaves appStep = 'upload', no base sticker
\* and no variants, whatever the state before it and whatever is in flight.
C1_UploadResets ==
  [][ (\E img \in Images : FileReadOk(img))
        => (appStep' = "upload" /\ baseSticker' = Null /\ variants' = <<>>) ]_vars

\* a file was read while a variant batch was running
C1_Witness ==
  /\ running # <<>>
  /\ running[1].kind = "variants"
  /\ running[1].idx >= 2
  /\ uploadedImage # running[1].closure.uploadedImage
  /\ appStep = "upload" /\ baseSticker = Null /\ variants = <<>>

\* C2: no control that runs handleGenerateBase is usable while no image is
\* uploaded, while consent is unchecked or while isLoading is true.
C2_GenerateBaseGated ==
  (GenerateBaseButtonEnabled \/ RegenerateButtonEnabled)
    => (uploadedImage # NoImage /\ consentChecked /\ ~isLoading)

StepRank(step) ==
  CASE step = "upload" -> 0 [] step = "base_generated" -> 1 [] step = "variants_generated" -> 2

\* C3: appStep only moves forward (upload, base_generated,
\* variants_generated) or stays; it goes back to 'upload' only by an upload.
C3_StepMonotone ==
  [][ \/ StepRank(appStep') >= StepRank(appStep)
      \/ (appStep' = "upload" /\ \E img \in Images : FileReadOk(img)) ]_vars

\* the captions at the positions pos of actions, in listed order
RECURSIVE Pick(_, _, _)
Pick(actions, pos, i) ==
  IF i > Len(actions) THEN <<>>
  ELSE (IF i \in pos THEN <<actions[i]>> ELSE <<>>) \o Pick(actions, pos, i + 1)

\* variants holds one entry per caption of a sub-list of the batch, in
\* listed order, each the data URI of a picture made from the batch's image
C4_VariantsAreSuccesses(fl, vs) ==
  /\ \E pos \in SUBSET (1..Len(fl.actions)) :
       [k \in 1..Len(vs) |-> vs[k].label] = Pick(fl.actions, pos, 1)
  /\ \A k \in 1..Len(vs) :
       /\ vs[k].id = <<"v", ToString(k)>>
       /\ vs[k].uri \in { DataUri(ImagePart(fl.closure.uploadedImage, p)) : p \in Pictures }

\* C4: when a batch completes, variants holds exactly the successful outputs
\* in caption order, and an error is on screen if a caption failed.
C4_BatchResult ==
  [][ (running # <<>> /\ running[1].kind = "variants" /\ running' = <<>>)
        => /\ C4_VariantsAreSuccesses(running[1], variants')
           /\ (Len(variants') < Len(running[1].actions) => ErrorShown') ]_vars

\* C5: a started batch makes one call per caption, in listed order, each
\* after the previous one completed, and nothing ends it before the last
\* caption's call has completed.
C5_BatchRunsToEnd ==
  /\ [](\A i \in 1..Len(running) :
          running[i].kind = "variants" =>
            /\ running[i].idx \in 1..Len(running[i].actions)
            /\ running[i].request.prompt
                 = VariantPrompt(running[i].closure, running[i].actions[running[i].idx]))
  /\ [][ (running # <<>> /\ running[1].kind = "variants") =>
           \/ running' = running
           \/ /\ Len(running') = Len(running)
              /\ running'[1].kind = "variants"
              /\ running'[1].actions = running[1].actions
              /\ running'[1].idx = running[1].idx + 1
           \/ /\ running' = Tail(running)
              /\ running[1].idx = Len(running[1].actions) ]_vars

\* the last call of a batch is in flight after an earlier caption failed and
\* after a new file was read
C5_Witness ==
  /\ running # <<>>
  /\ running[1].kind = "variants"
  /\ running[1].idx = Len(running[1].actions)
  /\ Len(running[1].generatedVariants) < running[1].idx - 1
  /\ uploadedImage # running[1].closure.uploadedImage

\* C6: at most one request is in flight, no workflow control is usable while
\* isLoading, and isLoading holds as long as a handler waits for a request.
C6_SingleFlight ==
  /\ Len(running) <= 1
  /\ (running # <<>> => isLoading)
  /\ (isLoading =>
        /\ ~GenerateBaseButtonEnabled
        /\ ~RegenerateButtonEnabled
        /\ ~ConfirmButtonEnabled
        /\ ~ResampleButtonEnabled
        /\ ~CustomVariantsButtonEnabled)

\* a later call of a batch is in flight with a base sticker on record
C6_Witness ==
  /\ Len(running) = 1
  /\ running[1].kind = "variants"
  /\ running[1].idx >= 2
  /\ Truthy(baseSticker)
  /\ consentChecked
  /\ isLoading

\* C7: variants non-empty, or appStep = 'variants_generated', implies that a
\* base sticker exists.
C7_VariantsNeedBase ==
  /\ (variants # <<>> => Truthy(baseSticker))
  /\ (appStep = "variants_generated" => Truthy(baseSticker))

GenerationErrors ==
  { ErrGenerationFailed(m) : m \in ErrorMessages \cup {ErrNoImageReturned} }

\* C8: a base generation run in 'upload' whose call fails ends with appStep
\* = 'upload', no base sticker, isLoading false and the error on screen.
C8_BaseFailureShown ==
  [][ ( /\ running # <<>>
        /\ running[1].kind = "base"
        /\ appStep = "upload"
        /\ running' = <<>>
        /\ error' \in GenerationErrors )
        => (appStep' = "upload" /\ baseSticker' = Null /\ ~isLoading' /\ ErrorShown') ]_vars

\* C9: a request carries the image that is uploaded when it is issued.
C9_RequestCarriesCurrentImage ==
  [][ (running' # <<>> /\ (running = <<>> \/ running'[1].idx # running[1].idx))
        => running'[1].request.image = uploadedImage' ]_vars

\* C10: the generation settings do not change while isLoading is true.
C10_SettingsFrozenWhileLoading ==
  [][ isLoading => UNCHANGED settingsVars ]_vars

\* C11: without an API key no request is ever sent, no control that runs
\* handleGenerateBase is usable, baseSticker stays null and appStep 'upload'.
C11_NoKeyDisablesGeneration ==
  ~ai =>
    /\ running = <<>>
    /\ ~GenerateBaseButtonEnabled
    /\ ~RegenerateButtonEnabled
    /\ baseSticker = Null
    /\ appStep = "upload"

\* --- the captions of a text, stated over positions instead of by scanning
Commas(t) == { i \in 1..Len(t) : t[i] = "," }

EntryStarts(t) == {1} \cup { c + 1 : c \in Commas(t) }

MinOf(S) == CHOOSE x \in S : \A y \in S : x <= y

MaxOf(S) == CHOOSE x \in S : \A y \in S : x >= y

EntryEnd(t, a) == MinOf({ c \in Commas(t) \cup {Len(t) + 1} : c >= a }) - 1

\* the positions of an entry that hold something other than a blank
Inked(t, a) == { i \in a..EntryEnd(t, a) : t[i] # " " }

KeptStarts(t) == { a \in EntryStarts(t) : Inked(t, a) # {} }

NthSmallest(S, k) == CHOOSE a \in S : Cardinality({ x \in S : x < a }) = k - 1

ExpectedCaptions(t) ==
  LET K == KeptStarts(t)
      n == IF Cardinality(K) < 12 THEN Cardinality(K) ELSE 12
  IN [ k \in 1..n |->
         LET a == NthSmallest(K, k) IN SubSeq(t, MinOf(Inked(t, a)), MaxOf(Inked(t, a))) ]

\* C12: the custom-variants action submits the comma-separated entries of
\* the text, trimmed, without the empty ones, in order, cut to the first 12;
\* "yes, no, ok" gives yes, no, ok.
C12_CustomCaptions ==
  [][ (running = <<>> /\ CustomVariantsButtonEnabled /\ running' # <<>>)
        => /\ running'[1].kind = "variants"
           /\ running'[1].actions = ExpectedCaptions(customVariantsPrompt)
           /\ running'[1].idx = 1
           /\ running'[1].request.prompt
                = VariantPrompt(running'[1].closure, ExpectedCaptions(customVariantsPrompt)[1])
           /\ (customVariantsPrompt = YesNoOkText
                 => running'[1].actions = << <<"yes">>, <<"no">>, <<"ok">> >>) ]_vars

\* the twelfth and last request of the batch submitted from a text of
\* thirteen entries is in flight
C12_Witness ==
  /\ customVariantsPrompt = LongText
  /\ running # <<>>
  /\ Len(running[1].actions) = 12
  /\ running[1].idx = 12
  /\ running[1].actions[12] = <<"12">>

Contains(p, sub) ==
  \E j \in 0..(Len(p) - Len(sub)) : SubSeq(p, j + 1, j + Len(sub)) = sub

Chunks(p) == { p[j] : j \in 1..Len(p) }

DescriptionOpeners == { "Incorporate this description: \"", "Incorporate this general theme: \"" }

\* C13: the prompt of every request, base or variant, holds the style label
\* (the custom text for 'custom'), the strength followed by '%', the
\* description clause iff the description is non-empty and each consistency
\* clause iff its flag is set.
C13_PromptTemplate ==
  \A i \in 1..Len(running) :
    LET s == running[i].closure
        p == running[i].request.prompt
    IN
    /\ Contains(p, IF s.style = "custom" THEN s.customStyle ELSE STYLES[s.style])
    /\ \E j \in 1..(Len(p) - 1) : p[j] = ToString(s.styleStrength) /\ p[j + 1] = "%. "
    /\ (Truthy(s.userPrompt) <=>
          \E j \in 1..Len(p) :
            /\ p[j] \in DescriptionOpeners
            /\ SubSeq(p, j + 1, j + Len(s.userPrompt)) = s.userPrompt)
    /\ (s.lockCharacter <=> "Maintain character consistency." \in Chunks(p))
    /\ (s.faceConsistency <=> "Pay close attention to face consistency." \in Chunks(p))

RECURSIVE IsSubsequence(_, _)
IsSubsequence(a, b) ==
  IF a = <<>> THEN TRUE
  ELSE IF b = <<>> THEN FALSE
  ELSE IF Head(a) = Head(b) THEN IsSubsequence(Tail(a), Tail(b))
  ELSE IsSubsequence(a, Tail(b))

\* every entry of vs is an output of the batch fl for one of its first n
\* captions, in listed order
OutputsOfBatch(fl, vs, n) ==
  /\ IsSubsequence([k \in 1..Len(vs) |-> vs[k].label], SubSeq(fl.actions, 1, n))
  /\ \A k \in 1..Len(vs) :
       /\ vs[k].id = <<"v", ToString(k)>>
       /\ vs[k].uri \in { DataUri(ImagePart(fl.closure.uploadedImage, p)) : p \in Pictures }

\* C14: variants never has more than 12 entries, and when a batch completes
\* variants holds outputs of that batch only, none when every caption failed.
C14_VariantsReplaced ==
  /\ [](Len(variants) <= 12)
  /\ [](\A i \in 1..Len(running) :
          running[i].kind = "variants" =>
            /\ OutputsOfBatch(running[i], running[i].generatedVariants, running[i].idx - 1)
            /\ variants = <<>>)
  /\ [][ (running # <<>> /\ running[1].kind = "variants" /\ running' = <<>>)
           => /\ OutputsOfBatch(running[1], variants', Len(running[1].actions))
              /\ \/ variants' = running[1].generatedVariants
                 \/ /\ Len(variants') = Len(running[1].generatedVariants) + 1
                    /\ SubSeq(variants', 1, Len(variants') - 1) = running[1].generatedVariants
                    /\ variants'[Len(variants')].label = running[1].actions[Len(running[1].actions)] ]_vars

\* the batch of a thirteen-entry text has completed with twelve variants
C14_Witness ==
  /\ customVariantsPrompt = LongText
  /\ running = <<>>
  /\ Len(variants) = 12
  /\ variants[12].label = <<"12">>

InlineAt(resp) == { j \in 1..Len(resp.parts) : resp.parts[j].inline }

IsGenerationFailed(e) == e # Null /\ e[1] = "image generation failed: "

IsNoImageReturned(e) == e # Null /\ e[Len(e)] = "the API returned no image"

C16_RegenerateBase ==
  /\ [][ (appStep = "base_generated" /\ running = <<>> /\ running' # <<>>
            /\ running'[1].kind = "base")
           => (isLoading' /\ error' = Null /\ UNCHANGED << resultVars, otherVars >>) ]_vars
  /\ [][ (running # <<>> /\ running[1].kind = "base" /\ appStep = "base_generated"
            /\ running' = <<>>)
           => \/ /\ \E p \in Pictures :
                      baseSticker' = DataUri(ImagePart(running[1].request.image, p))
                 /\ error' = error
                 /\ ~isLoading'
                 /\ UNCHANGED << appStep, variants, otherVars >>
              \/ /\ error' \in GenerationErrors
                 /\ ~isLoading'
                 /\ UNCHANGED << resultVars, otherVars >> ]_vars

\* a regeneration has failed: the earlier base sticker is still there
C16_Witness ==
  /\ running = <<>>
  /\ ~isLoading
  /\ appStep = "base_generated"
  /\ Truthy(baseSticker)
  /\ error \in GenerationErrors

\* C17: the step that ends a variant batch, random or custom, leaves appStep
\* = 'variants_generated' and isLoading false, whatever the captions'
\* outcomes were, also when none succeeded.
C17_BatchEndsInVariantsGenerated ==
  [][ (running # <<>> /\ running[1].kind = "variants" /\ running' = <<>>)
        => (appStep' = "variants_generated" /\ ~isLoading') ]_vars

\* a batch has ended with every caption failed
C17_Witness ==
  /\ running = <<>>
  /\ ~isLoading
  /\ appStep = "variants_generated"
  /\ variants = <<>>
  /\ Truthy(baseSticker)
  /\ \E k \in 1..Len(RANDOM_ACTIONS) : error = ErrVariantFailed(RANDOM_ACTIONS[k])

\* C18: when every request is eventually answered, a loading UI eventually
\* stops loading, and a suspended handler eventually ends.
C18_LoadingEnds ==
  /\ isLoading ~> ~isLoading
  /\ (running # <<>>) ~> (running = <<>>)

\* a first base generation has failed and the UI is usable again
C18_Witness ==
  /\ running = <<>>
  /\ ~isLoading
  /\ appStep = "upload"
  /\ uploadedImage # NoImage
  /\ error \in GenerationErrors

\* a text made of commas and blanks only
NoCaptionText(t) == \A j \in 1..Len(t) : t[j] \in {",", " "}

\* C19: the custom-variants action run on a text without any caption sets
\* the 'no valid caption' error and sends nothing: isLoading stays false and
\* variants, baseSticker and appStep stay as they were; from such a state the
\* only variant batch that can start is a random one.
C19_NoCaptionNoRequest ==
  /\ [][ (NoCaptionText(customVariantsPrompt) /\ ClickCustomVariants)
           => /\ error' = ErrNoValidAction
              /\ ~isLoading'
              /\ running' = <<>>
              /\ UNCHANGED << resultVars, otherVars >> ]_vars
  /\ [][ (CustomVariantsButtonEnabled /\ NoCaptionText(customVariantsPrompt)
            /\ running' # <<>>)
           => (running'[1].kind = "variants" => running'[1].actions \in ShuffleSamples) ]_vars

\* the action has been run on a text of commas and blanks
C19_Witness ==
  /\ error = ErrNoValidAction
  /\ customVariantsPrompt = <<" ", ",", " ", ",", " ">>
  /\ ~isLoading
  /\ running = <<>>
  /\ appStep = "variants_generated"
  /\ variants # <<>>

\* the pictures the service can make from an image
MadeFrom(img) == { DataUri(ImagePart(img, k)) : k \in Pictures }

\* C20: every stored result, the base sticker and each variant, was made
\* from the image that is uploaded now.
C20_ResultsFromCurrentImage ==
  /\ Truthy(baseSticker) =>
       \E img \in Images : img = uploadedImage /\ baseSticker \in MadeFrom(img)
  /\ \A j \in 1..Len(variants) :
       \E img \in Images : img = uploadedImage /\ variants[j].uri \in MadeFrom(img)

\* C21: in every reachable state, appStep = 'upload' goes with no base
\* sticker and no variants, and appStep = 'base_generated' goes with a base
\* sticker.
C21_StepMatchesResults ==
  /\ appStep = "upload" => (baseSticker = Null /\ variants = <<>>)
  /\ appStep = "base_generated" => Truthy(baseSticker)

\* an image was uploaded while a variant batch was running: the results made
\* so far are gone and the step is 'upload' again
C21_Witness ==
  /\ appStep = "upload"
  /\ baseSticker = Null
  /\ variants = <<>>
  /\ running # <<>>
  /\ running[1].kind = "variants"
  /\ running[1].generatedVariants # <<>>
====
